---- MODULE Spec2Model ----
(***************************************************************************)
(* ExportTaxCalc.py: one linear workflow that fetches vehicle data by      *)
(* licence plate, asks the user for three figures, writes them into two    *)
(* Excel workbooks and prints the export duty the workbook computes.       *)
(*                                                                         *)
(* The remote API, the console and Excel are the environment: every reply, *)
(* typed line and spreadsheet failure is a nondeterministic choice.  A     *)
(* workbook is a cell store (cell name -> value); a formula cell's value   *)
(* is the symbolic result Calc(cell, inputs).  Python floats are exact     *)
(* decimals m * 10^-e here: binary rounding of IEEE doubles is not         *)
(* modelled.                                                               *)
(***************************************************************************)
EXTENDS Integers, Sequences, FiniteSets, TLC

VARIABLES
    pc,         \* <<operation main is in, phase of that operation>>
    now,        \* datetime.now() as a calendar date <<year, month, day>>
    loc,        \* main's local variables, and fetch_new_price_from_api's 'data'
    api,        \* what the fuel endpoint answered for "fuel_efficiency"
    disk,       \* the two workbook files as last saved: file -> (cell -> value)
    open,       \* workbooks held open by a running Excel, oldest first
    out,        \* lines printed: "Fejl" (311), "Fallback" (249), "Eksportafgift" (230)
    failed,     \* the step whose exception reached main's except; <<>> if none
    trace,      \* every step, request, prompt and cell write so far, in order
    probe       \* two calls of calculate_vehicle_age against one 'now'

vars == <<pc, now, loc, api, disk, open, out, failed, trace, probe>>

-----------------------------------------------------------------------------
(* Bounds of the model *)

\* registration dates reach this many calendar years before 'now' ...
YearsBack == 11
\* ... and this many after it (a registration date in the future)
YearsAhead == 1

-----------------------------------------------------------------------------
(* Python values.  One record shape, so that any two values compare. *)

Val(k, m, e, s, of) == [k |-> k, m |-> m, e |-> e, s |-> s, of |-> of]

None == Val("none", 0, 0, <<>>, <<>>)
PyInt(n) == Val("int", n, 0, <<>>, <<>>)
\* a formula cell's computed value: which cell, computed from which inputs
Calc(cell, inputs) == Val("calc", 0, 0, cell, inputs)
\* a str, as its characters
PyStr(chars) == Val("str", 0, 0, chars, <<>>)
\* a raised exception, as a value
Raised(what) == Val("error", 0, 0, what, <<>>)

RECURSIVE Pow10(_)
Pow10(n) == IF n = 0 THEN 1 ELSE 10 * Pow10(n - 1)

\* the float m * 10^-e, in lowest terms
RECURSIVE PyFloat(_, _)
PyFloat(m, e) ==
    IF e > 0 /\ m % 10 = 0 THEN PyFloat(m \div 10, e - 1)
    ELSE Val("float", m, e, <<>>, <<>>)

IsNumber(v) == v.k \in {"int", "float"}

DigitChars == <<"0", "1", "2", "3", "4", "5", "6", "7", "8", "9">>
IsDigit(c) == \E i \in 1..Len(DigitChars) : DigitChars[i] = c
DigitOf(c) == (CHOOSE i \in 1..Len(DigitChars) : DigitChars[i] = c) - 1

RECURSIVE DigitsValue(_)
DigitsValue(s) ==
    IF s = <<>> THEN 0
    ELSE 10 * DigitsValue(SubSeq(s, 1, Len(s) - 1)) + DigitOf(s[Len(s)])

Positions(s, c) == {i \in 1..Len(s) : s[i] = c}

\* str.replace(old, new) for one-character old and new
Replace(s, old, new) == [i \in 1..Len(s) |-> IF s[i] = old THEN new ELSE s[i]]

\* float(text): an optional sign, digits, at most one point; anything else raises
\* ValueError (a comma is not a decimal separator for float())
ParseUnsigned(s) ==
    LET dots == Positions(s, ".")
        digits == SelectSeq(s, IsDigit)
    IN  IF /\ Cardinality(dots) <= 1
           /\ Len(digits) >= 1
           /\ Len(digits) + Cardinality(dots) = Len(s)
        THEN LET p == IF dots = {} THEN Len(s) ELSE CHOOSE i \in dots : TRUE
             IN  PyFloat(DigitsValue(digits), Len(s) - p)
        ELSE Raised(<<"ValueError">>)

float(s) ==
    IF s # <<>> /\ s[1] = "-"
    THEN LET v == ParseUnsigned(Tail(s))
         IN  IF v.k = "float" THEN PyFloat(0 - v.m, v.e) ELSE v
    ELSE ParseUnsigned(s)

RECURSIVE NatText(_)
NatText(n) ==
    IF n < 10 THEN <<DigitChars[n + 1]>>
    ELSE NatText(n \div 10) \o <<DigitChars[(n % 10) + 1]>>

RECURSIVE PadLeft(_, _)
PadLeft(s, w) == IF Len(s) >= w THEN s ELSE PadLeft(<<"0">> \o s, w)

\* str(v): "None", an int's digits, a float's shortest decimal with at least one
\* fractional digit
str(v) ==
    LET abs == IF v.m < 0 THEN 0 - v.m ELSE v.m
        sign == IF v.m < 0 THEN <<"-">> ELSE <<>>
    IN  CASE v.k = "none" -> <<"N", "o", "n", "e">>
          [] v.k = "str" -> v.s
          [] v.k = "int" -> sign \o NatText(abs)
          [] v.k = "float" ->
                IF v.e = 0 THEN sign \o NatText(abs) \o <<".", "0">>
                ELSE sign \o NatText(abs \div Pow10(v.e)) \o <<".">>
                          \o PadLeft(NatText(abs % Pow10(v.e)), v.e)

\* a * b for numbers; a float when either operand is
Times(a, b) ==
    IF a.k = "int" /\ b.k = "int" THEN PyInt(a.m * b.m)
    ELSE PyFloat(a.m * b.m, a.e + b.e)

\* a + b; an operand that is None raises TypeError
Plus(a, b) ==
    IF ~(IsNumber(a) /\ IsNumber(b)) THEN Raised(<<"TypeError">>)
    ELSE IF a.k = "int" /\ b.k = "int" THEN PyInt(a.m + b.m)
    ELSE LET e == IF a.e > b.e THEN a.e ELSE b.e
         IN  PyFloat(a.m * Pow10(e - a.e) + b.m * Pow10(e - b.e), e)

-----------------------------------------------------------------------------
(* Dates and the age calculator *)

IsLeap(y) == (y % 4 = 0 /\ y % 100 # 0) \/ y % 400 = 0

DaysInMonth(y, m) ==
    IF m = 2 THEN (IF IsLeap(y) THEN 29 ELSE 28)
    ELSE IF m \in {4, 6, 9, 11} THEN 30 ELSE 31

\* what strptime(..., "%Y-%m-%d") accepts
ValidDate(d) ==
    /\ Len(d) = 3
    /\ d[1] >= 1
    /\ d[2] \in 1..12
    /\ d[3] \in 1..DaysInMonth(d[1], d[2])

RECURSIVE DaysBeforeMonth(_, _)
DaysBeforeMonth(y, m) ==
    IF m = 1 THEN 0 ELSE DaysBeforeMonth(y, m - 1) + DaysInMonth(y, m - 1)

\* the proleptic Gregorian ordinal a datetime difference is computed from
Ordinal(d) ==
    LET y == d[1] - 1
    IN  y * 365 + (y \div 4) - (y \div 100) + (y \div 400)
          + DaysBeforeMonth(d[1], d[2]) + d[3]

\* with a plausible fault: the age of a registration date in the future counted as positive
calculate_vehicle_age_abs(registration_date, current_date) ==
    LET days == Ordinal(current_date) - Ordinal(registration_date)
    IN  (IF days < 0 THEN 0 - days ELSE days) \div 365

\* (current_date - reg_date).days // 365; current_date carries a time of day and
\* reg_date is a midnight, so .days is the difference of the two ordinals.  //
\* floors, as \div does.
calculate_vehicle_age(registration_date, current_date) ==
    (Ordinal(current_date) - Ordinal(registration_date)) \div 365

-----------------------------------------------------------------------------
(* Valuation lookup: the age band and its cell in row 19 of 'Ark1' *)

\* with a plausible fault: the first band closed at 1
BandOf_closed(age) ==
    IF age <= 1 THEN <<"E19", "0-1 år">>
    ELSE IF 1 <= age /\ age < 2 THEN <<"F19", "1-2 år">>
    ELSE IF 2 <= age /\ age < 3 THEN <<"G19", "2-3 år">>
    ELSE IF 3 <= age /\ age < 10 THEN <<"H19", "3-9 år">>
    ELSE <<"I19", "Over 10 år">>

\* the if/elif chain of find_trade_price_based_on_age: <<cell, age_group>>
BandOf(age) ==
    IF age < 1 THEN <<"E19", "0-1 år">>
    ELSE IF 1 <= age /\ age < 2 THEN <<"F19", "1-2 år">>
    ELSE IF 2 <= age /\ age < 3 THEN <<"G19", "2-3 år">>
    ELSE IF 3 <= age /\ age < 10 THEN <<"H19", "3-9 år">>
    ELSE <<"I19", "Over 10 år">>

-----------------------------------------------------------------------------
(* The environment's inputs *)

\* datetime.now() of a run of main
Today == <<2026, 11, 1>>

\* datetime.now() of the age calculator's calls
NowDates == {Today, <<2024, 2, 29>>}

\* month and day of the registration dates tried in every year of the range: by
\* the age calculator's calls, and by a run of main
MonthDays == {<<11, 1>>, <<11, 2>>, <<2, 29>>, <<3, 1>>}
MainMonthDays == {<<11, 1>>, <<11, 2>>}

RegistrationDates(today, monthdays) ==
    {d \in {<<y, md[1], md[2]>> : y \in (today[1] - YearsBack)..(today[1] + YearsAhead),
                                  md \in monthdays} : ValidDate(d)}

\* a "date" strptime rejects
InvalidDate == <<2023, 2, 30>>

\* the valuation endpoint's first record, as far as main reads it: the "date" key
VehicleRecords(today) ==
    {[has_date |-> TRUE, date |-> d] : d \in RegistrationDates(today, MainMonthDays) \cup {InvalidDate}}
        \cup {[has_date |-> FALSE, date |-> <<>>]}

\* the emissions endpoint's "co2": absent (or null), zero, or a figure
Co2Values == {None, PyInt(0), PyInt(120)}

\* the fuel endpoint's "fuel_efficiency": 5.5, 7, 2.0, "5,5", null
FuelEfficiencies ==
    {PyFloat(55, 1), PyInt(7), PyFloat(2, 0), PyStr(<<"5", ",", "5">>), None}

FuelTypes == {PyStr(<<"D", "i", "e", "s", "e", "l">>)}

\* a key the record does not hold
Missing == Val("missing", 0, 0, <<>>, <<>>)

\* the valuation endpoint's first record, as far as fetch_new_price_from_api reads it
PriceRecords ==
    [retail_price : {Missing, None, PyInt(0), PyInt(200000)},
     evaluation : {Missing, None, PyInt(100000)},
     registration_tax : {Missing, None, PyInt(50000)}]

\* lines the user types at the four prompts
HandelsprisTexts == {<<"9", "0", "0", "0", "0">>, <<"8", "5", "0", "0", "0", ".", "5">>, <<"a">>}
NormKmTexts == {<<"1", "5", "0", "0", "0">>, <<"1", "5", ",", "5">>}
CurrentKmTexts == {<<"1", "2", "0", "0", "0", "0">>, <<>>}
ManualPriceTexts == {<<"3", "0", "0", "0", "0", "0">>, <<"?">>}

-----------------------------------------------------------------------------
(* The workbooks *)

km_file_path == "Kopi-af-Kopi-af-Km-beregning.xlsx"
new_and_trade_file_path == "Kopi-af-Bilafgifter-2021-v2.1-kopi.xlsx"

E7 == "Ark1!E7"
E8 == "Ark1!E8"
E9 == "Ark1!E9"
C25 == "Værktøj til CO2!C25"
C26 == "Værktøj til CO2!C26"
C27 == "Værktøj til CO2!C27"
C30 == "Værktøj til CO2!C30"
L23 == "Brugte personvogne!L23"
L21 == "Brugte Personbiler!L21"
L22 == "Brugte Personbiler!L22"

\* the workbooks before the run: the km sheet holds an earlier vehicle's figures
Template ==
    (km_file_path :> (E7 :> PyFloat(50000, 0) @@ E8 :> PyFloat(20000, 0)
                        @@ E9 :> PyFloat(10000, 0)))
    @@ (new_and_trade_file_path :>
            [c \in {C25, C26, C27, C30, L23, L21, L22} |-> None])

\* the value Excel computed for a formula cell of row 19 of 'Ark1' from the
\* workbook's inputs
Row19(book, cell) == Calc(<<"Ark1", cell>>, <<book[E7], book[E8], book[E9]>>)

-----------------------------------------------------------------------------
(* main: the order of its steps and the phases of each *)

\* with a plausible fault: the age-band price is read before update_km_data has run
MainSteps_read_first ==
    <<"fetch_vehicle_data", "fetch_emissions_data", "calculate_vehicle_age",
      "fuel_data", "input", "find_trade_price_based_on_age", "update_km_data",
      "fetch_new_price_with_fallback", "update_co2_in_excel",
      "update_new_and_trade_price", "print_g32_value", "done">>

\* the statements of main's try block, in order
MainSteps ==
    <<"fetch_vehicle_data", "fetch_emissions_data", "calculate_vehicle_age",
      "fuel_data", "input", "update_km_data", "find_trade_price_based_on_age",
      "fetch_new_price_with_fallback", "update_co2_in_excel",
      "update_new_and_trade_price", "print_g32_value", "done">>

\* the first phase of each step
Entry(op) ==
    CASE op \in {"update_km_data", "update_co2_in_excel", "update_new_and_trade_price",
                 "print_g32_value"} -> "open"
      [] op = "input" -> "handelspris"
      [] op = "fetch_new_price_with_fallback" -> "request"
      [] op = "done" -> "done"
      [] OTHER -> "call"

\* where main stands once 'op' has returned
Return(op) ==
    LET i == CHOOSE j \in 1..Len(MainSteps) : MainSteps[j] = op
    IN  <<MainSteps[i + 1], Entry(MainSteps[i + 1])>>

At(op, phase) == pc = <<op, phase>>

\* with a plausible fault: the except clause also restores the workbooks
Abort_rollback(step) ==
    /\ pc' = <<"aborted", "done">>
    /\ out' = Append(out, "Fejl")
    /\ failed' = step
    /\ disk' = Template

\* main's except clause (310-311): print the error; nothing is undone, nothing
\* is closed
Abort(step) ==
    /\ pc' = <<"aborted", "done">>
    /\ out' = Append(out, "Fejl")
    /\ failed' = step
    /\ disk' = disk

Fresh ==
    [vehicle_data |-> [has_date |-> FALSE, date |-> <<>>],
     co2_value |-> None, vehicle_age |-> None, fuel_type |-> None,
     fuel_efficiency |-> None, handelspris_input |-> None, norm_km_input |-> None,
     current_km_input |-> None, handelspris |-> None, age_group |-> "",
     data |-> None, new_price |-> None]

Idle == [d1 |-> <<>>, a1 |-> 0, d2 |-> <<>>, a2 |-> 0, calls |-> 0]

Init ==
    /\ pc = <<MainSteps[1], Entry(MainSteps[1])>>
    /\ now = Today
    /\ loc = Fresh
    /\ api = None
    /\ disk = Template
    /\ open = <<>>
    /\ out = <<>>
    /\ failed = <<>>
    /\ trace = <<>>
    /\ probe = Idle

-----------------------------------------------------------------------------
(* Steps 2-5 of main: the fetches, the age, the prompts *)

\* every action records the step it executes, then what it wrote or read
Step(events) == trace' = Append(trace, pc) \o events

\* with a plausible fault: 'if not co2_value', which takes a CO2 figure of 0 for absent
IsAbsent_falsy(co2) == co2 = None \/ co2 = PyInt(0)

\* 'co2_value is None' (121, 135, 276)
IsAbsent(co2) == co2 = None

\* 264: the reply's first record, or the exception of lines 18-21
fetch_vehicle_data ==
    /\ At("fetch_vehicle_data", "call")
    /\ Step(<<<<"request", "fetch_vehicle_data">>>>)
    /\ \/ \E r \in VehicleRecords(now) :
            /\ loc' = [loc EXCEPT !.vehicle_data = r]
            /\ pc' = Return("fetch_vehicle_data")
            /\ UNCHANGED <<out, failed, disk>>
       \/ Abort(pc) /\ UNCHANGED loc
    /\ UNCHANGED <<now, api, open, probe>>

\* 268: the "co2" field, None when the reply has none, or the exception of 35-38
fetch_emissions_data ==
    /\ At("fetch_emissions_data", "call")
    /\ Step(<<<<"request", "fetch_emissions_data">>>>)
    /\ \/ \E co2 \in Co2Values :
            /\ loc' = [loc EXCEPT !.co2_value = co2]
            /\ pc' = Return("fetch_emissions_data")
            /\ UNCHANGED <<out, failed, disk>>
       \/ Abort(pc) /\ UNCHANGED loc
    /\ UNCHANGED <<now, api, open, probe>>

\* 271-272: vehicle_data["date"] (KeyError without the key), strptime (ValueError
\* on a date that does not exist), the age
main_calculate_vehicle_age ==
    /\ At("calculate_vehicle_age", "call")
    /\ Step(<<>>)
    /\ IF loc.vehicle_data.has_date /\ ValidDate(loc.vehicle_data.date)
       THEN /\ loc' = [loc EXCEPT !.vehicle_age =
                          PyInt(calculate_vehicle_age(loc.vehicle_data.date, now))]
            /\ pc' = Return("calculate_vehicle_age")
            /\ UNCHANGED <<out, failed, disk>>
       ELSE Abort(pc) /\ UNCHANGED loc
    /\ UNCHANGED <<now, api, open, probe>>

\* 58: str(data["fuel_efficiency"]).replace(".", ",")
FuelEfficiencyText(value) == PyStr(Replace(str(value), ".", ","))

\* 276-280: only without a CO2 value is the fuel record requested; the request
\* fails, or the reply lacks a field (54-55), or both fields are returned
main_fuel_data ==
    /\ At("fuel_data", "call")
    /\ IF IsAbsent(loc.co2_value)
       THEN /\ Step(<<<<"request", "fetch_fuel_data">>>>)
            /\ \/ \E ft \in FuelTypes, fe \in FuelEfficiencies :
                    /\ api' = fe
                    /\ loc' = [loc EXCEPT !.fuel_type = ft,
                                          !.fuel_efficiency = FuelEfficiencyText(fe)]
                    /\ pc' = Return("fuel_data")
                    /\ UNCHANGED <<out, failed, disk>>
               \/ Abort(pc) /\ UNCHANGED <<loc, api>>
       ELSE /\ Step(<<>>)
            /\ loc' = [loc EXCEPT !.fuel_type = None, !.fuel_efficiency = None]
            /\ pc' = Return("fuel_data")
            /\ UNCHANGED <<out, failed, disk, api>>
    /\ UNCHANGED <<now, open, probe>>

\* float(input(...)): the typed line parsed, or ValueError
Prompt(phase, texts, field, next) ==
    /\ At("input", phase)
    /\ \E text \in texts :
          LET v == float(text)
          IN  /\ Step(<<<<"typed", text>>>>)
              /\ IF v.k = "float"
                 THEN /\ loc' = [loc EXCEPT ![field] = v]
                      /\ pc' = next
                      /\ UNCHANGED <<out, failed, disk>>
                 ELSE Abort(pc) /\ UNCHANGED loc
    /\ UNCHANGED <<now, api, open, probe>>

\* 285
input_handelspris ==
    Prompt("handelspris", HandelsprisTexts, "handelspris_input", <<"input", "norm_km">>)

\* 286
input_norm_km ==
    Prompt("norm_km", NormKmTexts, "norm_km_input", <<"input", "current_km">>)

\* 287
input_current_km ==
    Prompt("current_km", CurrentKmTexts, "current_km_input", Return("input"))

-----------------------------------------------------------------------------
(* The spreadsheet cell store: open, write, save, close *)

Handle == open[Len(open)]

\* xw.App(visible=False); app.books.open(file_path): Excel holds the workbook, or
\* the open raises (no such file, no Excel)
XlOpen(op, file, next) ==
    /\ At(op, "open")
    /\ Step(<<>>)
    /\ \/ /\ open' = Append(open, [file |-> file, cells |-> disk[file]])
          /\ pc' = <<op, next>>
          /\ UNCHANGED <<out, failed, disk>>
       \/ Abort(pc) /\ UNCHANGED open
    /\ UNCHANGED <<now, loc, api, probe>>

\* sheet.range(cell).value = value, for each <<cell, value>> of 'writes' in order
RECURSIVE Written(_, _)
Written(cells, writes) ==
    IF writes = <<>> THEN cells
    ELSE Written([cells EXCEPT ![writes[1][1]] = writes[1][2]], Tail(writes))

WriteEvents(writes) == [i \in 1..Len(writes) |-> <<"write", writes[i][1]>>]

\* wb.sheets[...] raises when the workbook has no such sheet; otherwise the
\* writes reach the open workbook
XlWrite(op, phase, writes, next) ==
    /\ At(op, phase)
    /\ \/ /\ Step(WriteEvents(writes))
          /\ open' = [open EXCEPT ![Len(open)].cells = Written(@, writes)]
          /\ pc' = <<op, next>>
          /\ UNCHANGED <<out, failed, disk>>
       \/ Step(<<>>) /\ Abort(pc) /\ UNCHANGED open
    /\ UNCHANGED <<now, loc, api, probe>>

\* wb.save(): the file takes the open workbook's cells, or the save raises
XlSave(op) ==
    /\ At(op, "save")
    /\ Step(<<>>)
    /\ \/ /\ disk' = [disk EXCEPT ![Handle.file] = Handle.cells]
          /\ pc' = <<op, "close">>
          /\ UNCHANGED <<out, failed>>
       \/ Abort(pc)
    /\ UNCHANGED <<now, loc, api, open, probe>>

\* wb.close(); app.quit()
XlClose(op) ==
    /\ At(op, "close")
    /\ Step(<<>>)
    /\ open' = SubSeq(open, 1, Len(open) - 1)
    /\ pc' = Return(op)
    /\ UNCHANGED <<now, loc, api, disk, out, failed, probe>>

-----------------------------------------------------------------------------
(* Steps 6-7: the km workbook *)

\* 154-155
update_km_data_open == XlOpen("update_km_data", km_file_path, "write")

\* 156-160
update_km_data_write ==
    XlWrite("update_km_data", "write",
            <<<<E7, loc.handelspris_input>>, <<E8, loc.norm_km_input>>,
              <<E9, loc.current_km_input>>>>, "save")

\* 162
update_km_data_save == XlSave("update_km_data")

\* 163-164
update_km_data_close == XlClose("update_km_data")

\* 293 (84-104): load_workbook reads the saved file whole and holds nothing open
\* afterwards; data_only gives each formula cell the value Excel last computed
find_trade_price_based_on_age ==
    /\ At("find_trade_price_based_on_age", "call")
    /\ \/ LET band == BandOf(loc.vehicle_age.m)
          IN  /\ Step(<<<<"read", band[1]>>>>)
              /\ loc' = [loc EXCEPT !.handelspris = Row19(disk[km_file_path], band[1]),
                                    !.age_group = band[2]]
              /\ pc' = Return("find_trade_price_based_on_age")
              /\ UNCHANGED <<out, failed, disk>>
       \/ Step(<<>>) /\ Abort(pc) /\ UNCHANGED loc
    /\ UNCHANGED <<now, api, open, probe>>

-----------------------------------------------------------------------------
(* Step 8: the new price, with its fallback *)

\* dict.get(key, default)
Get(record, key, default) == IF record[key] = Missing THEN default ELSE record[key]

\* with a plausible fault: 'if retail_price:', which takes a retail price of 0 for absent
NewPrice_falsy(record) ==
    LET retail_price == Get(record, "retail_price", None)
    IN  IF retail_price # None /\ retail_price # PyInt(0) THEN retail_price
        ELSE Plus(Get(record, "evaluation", PyInt(0)),
                  Get(record, "registration_tax", PyInt(0)))

\* 203-208: retail_price if it is not None, else evaluation + registration_tax,
\* each 0 when the key is missing (a null operand raises TypeError)
NewPrice(record) ==
    LET retail_price == Get(record, "retail_price", None)
    IN  IF retail_price # None THEN retail_price
        ELSE Plus(Get(record, "evaluation", PyInt(0)),
                  Get(record, "registration_tax", PyInt(0)))

\* with a plausible fault: the except clause gives up instead of prompting
OnNewPriceError_abort == Abort(pc)

\* 247-249: the except clause of fetch_new_price_with_fallback prints the error
\* and goes on to the prompt
OnNewPriceError ==
    /\ pc' = <<"fetch_new_price_with_fallback", "manual">>
    /\ out' = Append(out, "Fallback")
    /\ UNCHANGED <<failed, disk>>

\* 198-200: the request; a reply's first record becomes 'data', a failure is
\* re-raised (212-215) into the fallback
fetch_new_price_from_api_request ==
    /\ At("fetch_new_price_with_fallback", "request")
    /\ Step(<<<<"request", "fetch_new_price_from_api">>>>)
    /\ \/ \E r \in PriceRecords :
            /\ loc' = [loc EXCEPT !.data = r]
            /\ pc' = <<"fetch_new_price_with_fallback", "compute">>
            /\ UNCHANGED <<out, failed, disk>>
       \/ OnNewPriceError /\ UNCHANGED loc
    /\ UNCHANGED <<now, api, open, probe>>

\* 203-210, 245-246: the price computed from 'data' and returned, or the
\* TypeError of the sum re-raised (214-215) into the fallback
fetch_new_price_from_api_compute ==
    /\ At("fetch_new_price_with_fallback", "compute")
    /\ Step(<<>>)
    /\ IF NewPrice(loc.data).k = "error"
       THEN OnNewPriceError /\ loc' = [loc EXCEPT !.data = None]
       ELSE /\ loc' = [loc EXCEPT !.new_price = NewPrice(loc.data), !.data = None]
            /\ pc' = Return("fetch_new_price_with_fallback")
            /\ UNCHANGED <<out, failed, disk>>
    /\ UNCHANGED <<now, api, open, probe>>

\* 250-252: float(input("Indtast nyprisen manuelt: ")); its ValueError is raised
\* inside the except clause and reaches main
fetch_new_price_manual ==
    /\ At("fetch_new_price_with_fallback", "manual")
    /\ \E text \in ManualPriceTexts :
          LET v == float(text)
          IN  /\ Step(<<<<"typed", text>>>>)
              /\ IF v.k = "float"
                 THEN /\ loc' = [loc EXCEPT !.new_price = v]
                      /\ pc' = Return("fetch_new_price_with_fallback")
                      /\ UNCHANGED <<out, failed, disk>>
                 ELSE Abort(pc) /\ UNCHANGED loc
    /\ UNCHANGED <<now, api, open, probe>>

-----------------------------------------------------------------------------
(* Steps 9-11: the tax workbook *)

\* 112-113
update_co2_in_excel_open ==
    XlOpen("update_co2_in_excel", new_and_trade_file_path, "write")

\* with a plausible fault: the CO2 proxy without its factor
co2_calculation_unscaled(text) == float(Replace(text, ",", "."))

\* 125: float(fuel_efficiency.replace(",", ".")) * 0.1; ValueError when the text
\* is no number
co2_calculation(text) ==
    LET v == float(Replace(text, ",", "."))
    IN  IF v.k = "float" THEN Times(v, PyFloat(1, 1)) ELSE v

\* 116-129 with a CO2 value: C26 and C30
\* 116-129 without: C26, C27, C25, then C30 unless the fuel efficiency is no
\* number (fuel_efficiency.replace is called on the str fetch_fuel_data returned)
update_co2_in_excel_write ==
    IF IsAbsent(loc.co2_value)
    THEN LET calc == co2_calculation(loc.fuel_efficiency.s)
             first == <<<<C26, PyStr(<<"N", "E", "D", "C">>)>>, <<C27, loc.fuel_type>>,
                        <<C25, loc.fuel_efficiency>>>>
         IN  IF calc.k = "error"
             THEN /\ At("update_co2_in_excel", "write")
                  /\ \/ /\ Step(WriteEvents(first))
                        /\ open' = [open EXCEPT ![Len(open)].cells = Written(@, first)]
                     \/ Step(<<>>) /\ UNCHANGED open
                  /\ Abort(pc)
                  /\ UNCHANGED <<now, loc, api, probe>>
             ELSE XlWrite("update_co2_in_excel", "write",
                          Append(first, <<C30, calc>>), "write_L23")
    ELSE XlWrite("update_co2_in_excel", "write",
                 <<<<C26, PyStr(<<"N", "E", "D", "C">>)>>, <<C30, loc.co2_value>>>>,
                 "write_L23")

\* 132-138: L23 takes the API's CO2 value, or what C30 now holds
update_co2_in_excel_write_L23 ==
    XlWrite("update_co2_in_excel", "write_L23",
            <<<<L23, IF ~IsAbsent(loc.co2_value) THEN loc.co2_value
                     ELSE Handle.cells[C30]>>>>, "save")

\* 140
update_co2_in_excel_save == XlSave("update_co2_in_excel")

\* 141-142
update_co2_in_excel_close == XlClose("update_co2_in_excel")

\* with a plausible fault: the figure the user typed is passed on as the trade price
TradePriceArgument_typed == loc.handelspris_input

\* 303: the third argument of update_new_and_trade_price
TradePriceArgument == loc.handelspris

\* 174-175
update_new_and_trade_price_open ==
    XlOpen("update_new_and_trade_price", new_and_trade_file_path, "write")

\* 176-179
update_new_and_trade_price_write ==
    XlWrite("update_new_and_trade_price", "write",
            <<<<L22, loc.new_price>>, <<L21, TradePriceArgument>>>>, "save")

\* 181
update_new_and_trade_price_save == XlSave("update_new_and_trade_price")

\* 182-183
update_new_and_trade_price_close == XlClose("update_new_and_trade_price")

\* 223-224
print_g32_value_open == XlOpen("print_g32_value", new_and_trade_file_path, "read")

\* 225-230: the sheet looked up, G32 read and printed
print_g32_value_read ==
    /\ At("print_g32_value", "read")
    /\ \/ /\ Step(<<<<"read", "G32">>>>)
          /\ out' = Append(out, "Eksportafgift")
          /\ pc' = <<"print_g32_value", "close">>
          /\ UNCHANGED <<failed, disk>>
       \/ Step(<<>>) /\ Abort(pc)
    /\ UNCHANGED <<now, loc, api, open, probe>>

\* 232-233
print_g32_value_close == XlClose("print_g32_value")

-----------------------------------------------------------------------------
(* The run of main *)

Next ==
    \/ fetch_vehicle_data
    \/ fetch_emissions_data
    \/ main_calculate_vehicle_age
    \/ main_fuel_data
    \/ input_handelspris
    \/ input_norm_km
    \/ input_current_km
    \/ update_km_data_open
    \/ update_km_data_write
    \/ update_km_data_save
    \/ update_km_data_close
    \/ find_trade_price_based_on_age
    \/ fetch_new_price_from_api_request
    \/ fetch_new_price_from_api_compute
    \/ fetch_new_price_manual
    \/ update_co2_in_excel_open
    \/ update_co2_in_excel_write
    \/ update_co2_in_excel_write_L23
    \/ update_co2_in_excel_save
    \/ update_co2_in_excel_close
    \/ update_new_and_trade_price_open
    \/ update_new_and_trade_price_write
    \/ update_new_and_trade_price_save
    \/ update_new_and_trade_price_close
    \/ print_g32_value_open
    \/ print_g32_value_read
    \/ print_g32_value_close

Spec == Init /\ [][Next]_vars

-----------------------------------------------------------------------------
(* The age calculator called twice against one 'now' *)

\* 69-76, for a registration date strptime accepts
probe_calculate_vehicle_age ==
    /\ At("probe", "call")
    /\ probe.calls < 2
    /\ \E d \in RegistrationDates(now, MonthDays) :
          probe' = IF probe.calls = 0
                   THEN [probe EXCEPT !.d1 = d, !.a1 = calculate_vehicle_age(d, now),
                                      !.calls = 1]
                   ELSE [probe EXCEPT !.d2 = d, !.a2 = calculate_vehicle_age(d, now),
                                      !.calls = 2]
    /\ UNCHANGED <<pc, now, loc, api, disk, open, out, failed, trace>>

InitAge ==
    /\ pc = <<"probe", "call">>
    /\ now \in NowDates
    /\ loc = Fresh
    /\ api = None
    /\ disk = Template
    /\ open = <<>>
    /\ out = <<>>
    /\ failed = <<>>
    /\ trace = <<>>
    /\ probe = Idle

NextAge == probe_calculate_vehicle_age

SpecAge == InitAge /\ [][NextAge]_vars

-----------------------------------------------------------------------------
(* What the checked properties speak of *)

Is(event, kind, name) == event[1] = kind /\ event[2] = name
Did(kind, name) == \E i \in DOMAIN trace : Is(trace[i], kind, name)
Times_done(kind, name) == Cardinality({i \in DOMAIN trace : Is(trace[i], kind, name)})

\* every occurrence of the second event has the first one before it
Before(kind1, name1, kind2, name2) ==
    \A j \in DOMAIN trace :
        Is(trace[j], kind2, name2) =>
            \E i \in 1..(j - 1) : Is(trace[i], kind1, name1)

\* the line typed last
LastTyped ==
    LET at == {i \in DOMAIN trace : trace[i][1] = "typed"}
    IN  trace[CHOOSE i \in at : \A j \in at : j <= i][2]

Requests == {i \in DOMAIN trace : trace[i][1] = "request"}
Printed(line) == Cardinality({i \in DOMAIN out : out[i] = line})

\* what a cell holds: in the workbook Excel has open if there is one, else on disk
Current(file, cell) ==
    IF \E i \in DOMAIN open : open[i].file = file
    THEN open[CHOOSE i \in DOMAIN open : open[i].file = file].cells[cell]
    ELSE disk[file][cell]

Tax(cell) == Current(new_and_trade_file_path, cell)
Km(cell) == Current(km_file_path, cell)
Aborted == pc[1] = "aborted"
Finished == pc[1] = "done"

-----------------------------------------------------------------------------
(* C1 *)

\* C1: whatever the age, find_trade_price_based_on_age reads exactly one cell of
\* row 19 and returns one label: E19 and '0-1 år' below 1 (negative ages
\* included), F19 and '1-2 år' from 1, G19 and '2-3 år' from 2, H19 and '3-9 år'
\* from 3 to 9, I19 and 'Over 10 år' from 10 on.
C1_OneBandPerAge ==
    Did("read", "E19") \/ Did("read", "F19") \/ Did("read", "G19")
        \/ Did("read", "H19") \/ Did("read", "I19") =>
    LET a == loc.vehicle_age.m
        picked == {c \in {"E19", "F19", "G19", "H19", "I19"} : Did("read", c)}
        is(cell, label) == /\ picked = {cell}
                           /\ Times_done("read", cell) = 1
                           /\ loc.age_group = label
                           /\ loc.handelspris.s = <<"Ark1", cell>>
    IN  /\ a < 1 => is("E19", "0-1 år")
        /\ a = 1 => is("F19", "1-2 år")
        /\ a = 2 => is("G19", "2-3 år")
        /\ a \in 3..9 => is("H19", "3-9 år")
        /\ a >= 10 => is("I19", "Over 10 år")

\* a vehicle exactly 10 years old got the last band; others got each other band,
\* the boundary ages 1 and 3 and a negative age among them
C1_Witness ==
    /\ loc.vehicle_age = PyInt(10)
    /\ loc.age_group = "Over 10 år"
    /\ loc.handelspris.s = <<"Ark1", "I19">>

C1_WitnessNegative == loc.vehicle_age.m < 0 /\ loc.age_group = "0-1 år"
C1_WitnessOne == loc.vehicle_age = PyInt(1) /\ loc.age_group = "1-2 år"
C1_WitnessThree == loc.vehicle_age = PyInt(3) /\ loc.age_group = "3-9 år"
C1_WitnessNine == loc.vehicle_age = PyInt(9) /\ loc.age_group = "3-9 år"
C1_WitnessTwo == loc.vehicle_age = PyInt(2) /\ loc.age_group = "2-3 år"

-----------------------------------------------------------------------------
(* C2 *)

\* C2: once the emissions fetch has returned a CO2 value, the fuel record is
\* never requested, C25 and C27 are never written, and whatever
\* update_co2_in_excel has written to C30 and to L23 is that value; when it has
\* returned, the saved workbook holds it in both.
C2_Co2ValueWrittenDirectly ==
    loc.co2_value # None =>
        /\ ~Did("request", "fetch_fuel_data")
        /\ ~Did("write", C25) /\ ~Did("write", C27)
        /\ Did("write", C30) => Tax(C30) = loc.co2_value
        /\ Did("write", L23) => Tax(L23) = loc.co2_value
        /\ Did("update_co2_in_excel", "close") =>
              /\ disk[new_and_trade_file_path][C30] = loc.co2_value
              /\ disk[new_and_trade_file_path][L23] = loc.co2_value
              /\ disk[new_and_trade_file_path][C25] = Template[new_and_trade_file_path][C25]
              /\ disk[new_and_trade_file_path][C27] = Template[new_and_trade_file_path][C27]

\* update_co2_in_excel has returned in a run whose CO2 value is 0
C2_Witness ==
    /\ loc.co2_value = PyInt(0)
    /\ Did("update_co2_in_excel", "close")
    /\ disk[new_and_trade_file_path][L23] = PyInt(0)

-----------------------------------------------------------------------------
(* C3 *)

\* the number v times 0.1, as a decimal
Tenth(v) == PyFloat(v.m, v.e + 1)

\* text is 'original' with every point turned into a comma
CommaFor(text, original) ==
    /\ Len(text) = Len(original)
    /\ \A i \in DOMAIN text :
          text[i] = (IF original[i] = "." THEN "," ELSE original[i])

\* C3: without a CO2 value, whatever update_co2_in_excel has written to C30 is
\* the API's fuel efficiency, as a decimal, times 0.1 (5.5 gives 0.55, "5,5"
\* too), L23 takes the same value as C30, and C25 holds the API's value as text
\* with a comma for its decimal point; when update_co2_in_excel has returned,
\* the saved workbook holds all three.
C3_Co2FromFuelEfficiency ==
    LET expected == IF IsNumber(api) THEN Tenth(api)
                    ELSE IF api = PyStr(<<"5", ",", "5">>) THEN PyFloat(55, 2)
                    ELSE None
        saved == disk[new_and_trade_file_path]
    IN  loc.co2_value = None =>
            /\ Did("write", C25) =>
                  /\ Tax(C25).k = "str"
                  /\ CommaFor(Tax(C25).s, str(api))
            /\ Did("write", C30) => expected # None /\ Tax(C30) = expected
            /\ Did("write", L23) => Tax(L23) = Tax(C30) /\ Tax(L23) = expected
            /\ Did("update_co2_in_excel", "close") =>
                  /\ saved[C30] = expected
                  /\ saved[L23] = expected
                  /\ saved[C25].k = "str" /\ CommaFor(saved[C25].s, str(api))
                  /\ expected # None

\* the API answered 5.5 and no CO2 value: the saved workbook holds 0.55 in C30
\* and L23 and "5,5" in C25
C3_Witness ==
    /\ loc.co2_value = None
    /\ api = PyFloat(55, 1)
    /\ Did("update_co2_in_excel", "close")
    /\ disk[new_and_trade_file_path][C30] = PyFloat(55, 2)
    /\ disk[new_and_trade_file_path][L23] = PyFloat(55, 2)
    /\ disk[new_and_trade_file_path][C25] = PyStr(<<"5", ",", "5">>)

\* the fuel efficiency was null: update_co2_in_excel raised at line 125, after
\* C25 and before C30
C3_WitnessNotANumber ==
    /\ api = None
    /\ failed = <<"update_co2_in_excel", "write">>
    /\ Did("write", C25)
    /\ ~Did("write", C30)

-----------------------------------------------------------------------------
(* C4 *)

\* a field's amount, a missing field counting as zero
AmountOrZero(v) == IF v = Missing THEN 0 ELSE v.m

C4_WitnessZero == loc.new_price = PyInt(0) /\ At("update_co2_in_excel", "open")

-----------------------------------------------------------------------------
(* C5 *)

FallbackSteps ==
    {<<"fetch_new_price_with_fallback", "request">>,
     <<"fetch_new_price_with_fallback", "compute">>}

\* C5: a failure of fetch_new_price_from_api, in the request or in computing the
\* price, never aborts the run: it leads to the manual prompt, which is made at
\* most once; from then on no request is issued; a price typed there that
\* parses takes the run on to update_co2_in_excel, and what
\* update_new_and_trade_price writes to L22 is that price.
C5_FallbackToManualPrice ==
    [][/\ pc \in FallbackSteps =>
            /\ ~Aborted'
            /\ pc' \in FallbackSteps
                    \cup {<<"fetch_new_price_with_fallback", "manual">>,
                          <<"update_co2_in_excel", "open">>}
            /\ (Printed("Fallback")' = 1) <=>
                    (pc' = <<"fetch_new_price_with_fallback", "manual">>)
       /\ Printed("Fallback") = 1 =>
            /\ Requests' = Requests
            /\ Printed("Fallback")' = 1
            /\ Times_done("fetch_new_price_with_fallback", "manual")' <= 1
       /\ At("fetch_new_price_with_fallback", "manual") =>
            \/ /\ pc' = <<"update_co2_in_excel", "open">>
               /\ loc'.new_price = float(LastTyped')
            \/ Aborted' /\ float(LastTyped').k = "error"
       /\ (Printed("Fallback") = 1 /\ Did("write", L22)') =>
            /\ Tax(L22)' = loc.new_price
            /\ Did("fetch_new_price_with_fallback", "manual")
            /\ \E i \in DOMAIN trace :
                  /\ Is(trace[i], "fetch_new_price_with_fallback", "manual")
                  /\ trace[i + 1][1] = "typed"
                  /\ loc.new_price = float(trace[i + 1][2])
      ]_vars

\* the fetch failed, 300000 was typed, and the run finished with it in L22
C5_Witness ==
    /\ Printed("Fallback") = 1
    /\ Finished
    /\ disk[new_and_trade_file_path][L22] = PyFloat(300000, 0)

-----------------------------------------------------------------------------
(* C6 *)

Saved(op) == Did(op, "close")

\* C6: an exception that reaches main ends the run there: no step follows, the
\* error is printed exactly once (and never in a run without one), the
\* workbook files stay as they were saved, so the cells of every operation that
\* had saved keep the written values; a failure of the vehicle or emissions
\* fetch leaves both workbooks as they were, unopened.
C6_AbortKeepsWhatWasSaved ==
    [][/\ Aborted => UNCHANGED vars
       /\ Aborted' <=> failed' # <<>>
       /\ Printed("Fejl")' = (IF Aborted' THEN 1 ELSE 0)
       /\ (Aborted' /\ ~Aborted) =>
            /\ failed' = pc
            /\ disk' = disk
       /\ Saved("update_km_data")' =>
            /\ disk'[km_file_path][E7] = loc'.handelspris_input
            /\ disk'[km_file_path][E8] = loc'.norm_km_input
            /\ disk'[km_file_path][E9] = loc'.current_km_input
       /\ Saved("update_co2_in_excel")' =>
            /\ disk'[new_and_trade_file_path][C30] # None
            /\ disk'[new_and_trade_file_path][L23] = disk'[new_and_trade_file_path][C30]
       /\ Saved("update_new_and_trade_price")' =>
            disk'[new_and_trade_file_path][L22] = loc'.new_price
       /\ (Aborted' /\ failed'[1] \in {"fetch_vehicle_data", "fetch_emissions_data"}) =>
            /\ disk' = Template
            /\ open' = <<>>
            /\ \A i \in DOMAIN trace' : trace'[i][1] # "write"
      ]_vars

\* update_co2_in_excel failed to save: the run stopped with the km workbook
\* holding the figures typed earlier
C6_Witness ==
    /\ Aborted
    /\ failed = <<"update_co2_in_excel", "save">>
    /\ Printed("Fejl") = 1
    /\ disk[km_file_path][E7] = PyFloat(90000, 0)
    /\ disk[new_and_trade_file_path] = Template[new_and_trade_file_path]

-----------------------------------------------------------------------------
(* C7 *)

\* main is about to enter a step, or has ended
BetweenSteps == pc[2] = Entry(pc[1]) \/ Finished \/ Aborted

\* C7: at most one workbook is open at any time, and none is open when main
\* stands between two steps or has ended, normally or by an abort.
C7_NoHandleLeftOpen ==
    /\ Len(open) <= 1
    /\ BetweenSteps => open = <<>>

\* the part of C7 the code keeps: never two workbooks open, and none open
\* between steps or at the end of a run without a failure
C7_ReleasedUnlessFailed ==
    /\ Len(open) <= 1
    /\ (BetweenSteps /\ ~Aborted) => open = <<>>

\* the fuel efficiency was null: update_co2_in_excel raised at line 125 with the
\* workbook open, and the run ended with it open
C7_LeakOnNotANumber ==
    /\ Aborted
    /\ api = None
    /\ failed = <<"update_co2_in_excel", "write">>
    /\ Len(open) = 1

-----------------------------------------------------------------------------
(* C8 *)

\* d1 is the same day as d2 or an earlier one, by the calendar
NotLater(d1, d2) ==
    \/ d1[1] < d2[1]
    \/ d1[1] = d2[1] /\ d1[2] < d2[2]
    \/ d1[1] = d2[1] /\ d1[2] = d2[2] /\ d1[3] <= d2[3]

\* C8: against one 'now', a registration date that is not later gives an age
\* that is not smaller; and each age is the floor of the day count over 365,
\* for negative counts too.
C8_AgeMonotone ==
    probe.calls = 2 =>
        /\ NotLater(probe.d1, probe.d2) => probe.a1 >= probe.a2
        /\ NotLater(probe.d2, probe.d1) => probe.a2 >= probe.a1
        /\ \A c \in {<<probe.d1, probe.a1>>, <<probe.d2, probe.a2>>} :
              LET days == Ordinal(now) - Ordinal(c[1])
              IN  365 * c[2] <= days /\ days < 365 * (c[2] + 1)

\* a past date and a future one: a positive age and a negative one
C8_Witness ==
    /\ probe.calls = 2
    /\ NotLater(probe.d1, probe.d2)
    /\ probe.a1 > 0
    /\ probe.a2 < 0

-----------------------------------------------------------------------------
(* C9 *)

\* the operations of main in the order the specification numbers them
Order(op) ==
    CASE op = "fetch_vehicle_data" -> 1
      [] op = "fetch_emissions_data" -> 2
      [] op = "calculate_vehicle_age" -> 3
      [] op = "fuel_data" -> 4
      [] op = "input" -> 5
      [] op = "update_km_data" -> 6
      [] op = "find_trade_price_based_on_age" -> 7
      [] op = "fetch_new_price_with_fallback" -> 8
      [] op = "update_co2_in_excel" -> 9
      [] op = "update_new_and_trade_price" -> 10
      [] op = "print_g32_value" -> 11
      [] OTHER -> 0

StepsAt == {i \in DOMAIN trace : Order(trace[i][1]) > 0}
Row19Cells == {"E19", "F19", "G19", "H19", "I19"}
TaxCells == {C25, C26, C27, C30, L23, L21, L22}

\* C9: the steps run in the one order, none twice; row 19 is read only after
\* update_km_data wrote E7, E8, E9, saved and closed (and so reads what Excel
\* computed from them); the tax workbook is written only after that read and
\* with the new price in hand; G32 is read only after all three write cycles
\* saved and closed.
C9_LinearOrder ==
    [][LET new == SubSeq(trace', Len(trace) + 1, Len(trace'))
       IN  /\ new # <<>> => new[1] = pc
           /\ \A i \in StepsAt :
                 trace[i] # pc /\ Order(trace[i][1]) <= Order(pc[1])
           /\ \A k \in DOMAIN new :
                 /\ (new[k][1] = "read" /\ new[k][2] \in Row19Cells) =>
                       /\ Did("write", E7) /\ Did("write", E8) /\ Did("write", E9)
                       /\ Did("update_km_data", "save")
                       /\ Did("update_km_data", "close")
                       /\ open = <<>>
                       /\ \A c \in Row19Cells : ~Did("read", c)
                       /\ loc'.handelspris.of = <<loc.handelspris_input,
                                                  loc.norm_km_input, loc.current_km_input>>
                 /\ (new[k][1] = "write" /\ new[k][2] \in TaxCells) =>
                       /\ \E c \in Row19Cells : Did("read", c)
                       /\ Did("fetch_new_price_with_fallback", "request")
                       /\ IsNumber(loc.new_price)
                 /\ (new[k][1] = "read" /\ new[k][2] = "G32") =>
                       /\ \A op \in {"update_km_data", "update_co2_in_excel",
                                     "update_new_and_trade_price"} :
                             Did(op, "save") /\ Did(op, "close")
                       /\ Len(open) = 1
                       /\ Handle.cells = disk[new_and_trade_file_path]
      ]_vars

\* a run went through all eleven steps and printed the export duty
C9_Witness ==
    /\ Finished
    /\ Printed("Eksportafgift") = 1
    /\ open = <<>>

-----------------------------------------------------------------------------
(* C10 *)

\* the row 19 cell of the band the age falls in
BandCell(a) ==
    IF a < 1 THEN "E19" ELSE IF a < 2 THEN "F19" ELSE IF a < 3 THEN "G19"
    ELSE IF a < 10 THEN "H19" ELSE "I19"

\* C10: what update_new_and_trade_price writes to L21 is the value read from
\* the age band's cell of row 19, not the trade price typed, which E7 of 'Ark1'
\* holds and no cell of the tax workbook; what it writes to L22 is the new
\* price of step 8.
C10_TradePriceFromRow19 ==
    /\ Did("write", L21) =>
          /\ Tax(L21) = Row19(disk[km_file_path], BandCell(loc.vehicle_age.m))
          /\ Tax(L21) # loc.handelspris_input
          /\ Km(E7) = loc.handelspris_input
          /\ \A c \in TaxCells : Tax(c) # loc.handelspris_input
    /\ Did("write", L22) =>
          /\ Tax(L22) = loc.new_price
          /\ IsNumber(loc.new_price)
    /\ Saved("update_new_and_trade_price") =>
          /\ disk[new_and_trade_file_path][L21]
                = Row19(disk[km_file_path], BandCell(loc.vehicle_age.m))
          /\ disk[new_and_trade_file_path][L22] = loc.new_price

\* a run finished with row 19's H19 value in L21 and the API's price in L22
C10_Witness ==
    /\ Finished
    /\ disk[new_and_trade_file_path][L21].s = <<"Ark1", "H19">>
    /\ disk[new_and_trade_file_path][L22] = PyInt(200000)
    /\ loc.handelspris_input = PyFloat(90000, 0)

====
